---- MODULE Spec2Model ----
(***************************************************************************)
(* KVInstallationStore (src/src/kv-installation-store.ts): the installation *)
(* store of slack-cloudflare-workers over a Cloudflare KV namespace.        *)
(*                                                                          *)
(* A JavaScript string is a sequence of characters; `undefined` is the      *)
(* one-element sequence Undefined, whose element is no character.  Ids      *)
(* are spelled character by character because the storage keys are built   *)
(* by concatenation and deleteAll matches them by prefix; tokens and        *)
(* timestamps are only copied and compared, so each is one symbol.          *)
(***************************************************************************)
EXTENDS Integers, Sequences, FiniteSets, TLC

VARIABLES
  storage,   \* #storage: the KV namespace of installations, key -> stored string
  cache,     \* #authTestCacheNamespace: token -> [value, ttl]
  calls,     \* the calls in flight, one record per task
  finished,  \* the call that ended last, until another call begins
  config,    \* #env and the constructor's options
  ncalls,    \* number of calls started so far
  probe      \* inputs and outputs of the key derivation helpers

vars == <<storage, cache, calls, finished, config, ncalls, probe>>

----------------------------------------------------------------------------
(* JavaScript values *)

Undefined == <<"undefined">>
EmptyString == <<>>

\* `undefined` and `null` where the other values are objects (records)
UndefinedObject == [type |-> "undefined"]
Null == [type |-> "null"]

\* `x ? a : b` and `!x` on a value of type string | undefined
Truthy(x) == x # Undefined /\ x # EmptyString

\* `x ?? d`
NullishOr(x, d) == IF x = Undefined THEN d ELSE x

\* `x ? x : d`
TruthyOr(x, d) == IF Truthy(x) THEN x ELSE d

StartsWith(s, p) == Len(s) >= Len(p) /\ SubSeq(s, 1, Len(p)) = p

----------------------------------------------------------------------------
(* Key derivation helpers *)

toBotInstallationQuery(clientId, q) ==
  LET e == TruthyOr(q.enterpriseId, <<"_">>)
      t == IF Truthy(q.teamId) /\ ~q.isEnterpriseInstall THEN q.teamId ELSE <<"_">>
  IN  clientId \o <<"/">> \o e \o <<":">> \o t

toUserInstallationQuery(clientId, q) ==
  LET e == TruthyOr(q.enterpriseId, <<"_">>)
      t == IF Truthy(q.teamId) /\ ~q.isEnterpriseInstall THEN q.teamId ELSE <<"_">>
      u == TruthyOr(q.userId, <<"_">>)
  IN  clientId \o <<"/">> \o e \o <<":">> \o t \o <<":">> \o u

toBotInstallationKey(clientId, installation) ==
  LET e == NullishOr(installation.enterprise_id, <<"_">>)
      t == IF Truthy(installation.team_id) /\ ~installation.is_enterprise_install
           THEN installation.team_id ELSE <<"_">>
  IN  clientId \o <<"/">> \o e \o <<":">> \o t

toUserInstallationKey(clientId, installation) ==
  LET e == NullishOr(installation.enterprise_id, <<"_">>)
      t == IF Truthy(installation.team_id) /\ ~installation.is_enterprise_install
           THEN installation.team_id ELSE <<"_">>
      u == NullishOr(installation.user_id, <<"_">>)
  IN  clientId \o <<"/">> \o e \o <<":">> \o t \o <<":">> \o u

----------------------------------------------------------------------------
(* JSON.stringify / JSON.parse of the stored strings.  A stored string is   *)
(* a record: the text of a JSON document, or text that is no JSON document. *)
(* An object is a record whose absent properties read Undefined, which is   *)
(* what JSON.stringify (dropping them) and JSON.parse leave of them.        *)

JSONstringify(value) == [type |-> "string", text |-> "json", value |-> value]

\* a non-empty string that is no JSON document, and the empty string
MalformedText == [type |-> "string", text |-> "malformed", value |-> UndefinedObject]
EmptyText == [type |-> "string", text |-> "empty", value |-> UndefinedObject]

\* `if (storedString)` on a value of type string | null
TruthyText(s) == s # Null /\ s.text # "empty"

SyntaxError == [type |-> "SyntaxError"]

\* [ok |-> TRUE, value |-> v] or [ok |-> FALSE, error |-> e]
JSONparse(text) ==
  IF text.text = "json" THEN [ok |-> TRUE, value |-> text.value]
  ELSE [ok |-> FALSE, error |-> SyntaxError]

----------------------------------------------------------------------------
(* The KV namespace: a function from the stored keys to their values *)

KVError == [type |-> "KVError"]

KVGet(ns, key) == IF key \in DOMAIN ns THEN ns[key] ELSE Null

\* a put that keeps the value a key already holds
KVPutIfAbsent(ns, key, value) ==
  [k \in DOMAIN ns \cup {key} |-> IF k \in DOMAIN ns THEN ns[k] ELSE value]

KVPut(ns, key, value) ==
  [k \in DOMAIN ns \cup {key} |-> IF k = key THEN value ELSE ns[k]]

KVDeleteTombstone(ns, key) ==
  IF key \in DOMAIN ns THEN [k \in DOMAIN ns \ {key} |-> ns[k]]
  ELSE [k \in DOMAIN ns \cup {key} |-> IF k = key THEN EmptyText ELSE ns[k]]

KVDelete(ns, key) == [k \in DOMAIN ns \ {key} |-> ns[k]]

\* KV lists keys in lexicographic order of their UTF-8 bytes
CharCode(ch) ==
  CASE ch = "/" -> 47 [] ch = "1" -> 49 [] ch = ":" -> 58
    [] ch = "C" -> 67 [] ch = "D" -> 68 [] ch = "E" -> 69
    [] ch = "T" -> 84 [] ch = "U" -> 85 [] ch = "V" -> 86
    [] ch = "_" -> 95

RECURSIVE LexLess(_, _)
LexLess(a, b) ==
  IF b = <<>> THEN FALSE
  ELSE IF a = <<>> THEN TRUE
  ELSE IF Head(a) = Head(b) THEN LexLess(Tail(a), Tail(b))
  ELSE CharCode(Head(a)) < CharCode(Head(b))

RECURSIVE SortedNames(_)
SortedNames(S) ==
  IF S = {} THEN <<>>
  ELSE LET m == CHOOSE x \in S : \A y \in S \ {x} : LexLess(x, y)
       IN  <<m>> \o SortedNames(S \ {m})

\* The names list({prefix, cursor}) has still to return: the cursor of a
\* page is the last name of that page
KVRemaining(ns, prefix, cursor) ==
  SortedNames({k \in DOMAIN ns :
                 /\ StartsWith(k, prefix)
                 /\ (cursor = Undefined \/ LexLess(cursor, k))})

\* list({prefix, cursor}) returning a page of at most n names
KVList(ns, prefix, cursor, n) ==
  LET rest == KVRemaining(ns, prefix, cursor)
      complete == n >= Len(rest)
      page == IF complete THEN rest ELSE SubSeq(rest, 1, n)
  IN  [keys |-> page,
       list_complete |-> complete,
       cursor |-> IF complete THEN Undefined ELSE page[n]]

----------------------------------------------------------------------------
(* Bounds and inputs *)

\* `options.authTestCacheExpirationSecs ?? 10 * 60`
DefaultAuthTestCacheExpirationSecs == 600

\* the fields the constructor sets from env and from no options
DefaultConfig ==
  [SLACK_USER_TOKEN_RESOLUTION |-> "installer",
   authTestCacheEnabled |-> FALSE,
   authTestCacheExpirationSecs |-> DefaultAuthTestCacheExpirationSecs]

MaxTasks == 2     \* calls that may be in flight together
MaxCalls == 3     \* calls started in one behaviour
PageLimit == 2    \* most names one list page returns
MaxAuthorizeCalls == 1   \* calls of the authorize function in one behaviour
MaxHeaders == 2   \* headers of a response

Tasks == 1..MaxTasks

ClientIds == {<<"C">>}

BotToken(v) == IF v = 1 THEN <<"xoxb-1">> ELSE <<"xoxb-2">>
UserToken(v) == IF v = 1 THEN <<"xoxp-1">> ELSE <<"xoxp-2">>

\* An installation without refresh tokens; v tells two grants of one identity apart
MkInstallation(e, t, u, ent, v) ==
  [enterprise_id |-> e, team_id |-> t, user_id |-> u, is_enterprise_install |-> ent,
   bot_token |-> BotToken(v), bot_refresh_token |-> Undefined,
   bot_token_expires_at |-> Undefined, bot_scopes |-> <<"chat:write">>,
   user_token |-> UserToken(v), user_refresh_token |-> Undefined,
   user_token_expires_at |-> Undefined, user_scopes |-> <<"search:read">>]

\* isEnterpriseInstall FALSE stands for false and for an absent property: the
\* helpers only test `!q.isEnterpriseInstall`
MkQuery(e, t, u, ent) ==
  [enterpriseId |-> e, teamId |-> t, userId |-> u, isEnterpriseInstall |-> ent]

\* the query whose fields are the installation's identity
queryDerivedFrom(i) ==
  MkQuery(i.enterprise_id, i.team_id, i.user_id, i.is_enterprise_install)

StoreInstallations ==
  { MkInstallation(Undefined, <<"T">>, <<"U">>, FALSE, 1),
    MkInstallation(Undefined, <<"T">>, <<"U">>, FALSE, 2),
    MkInstallation(Undefined, <<"T", "1">>, <<"U">>, FALSE, 1),
    MkInstallation(EmptyString, <<"T">>, <<"U">>, FALSE, 1),
    MkInstallation(<<"E">>, <<"T">>, <<"V">>, TRUE, 1) }

StoreQueries ==
  { MkQuery(i.enterprise_id, i.team_id, i.user_id, i.is_enterprise_install) :
      i \in StoreInstallations }
  \cup { MkQuery(Undefined, Undefined, Undefined, FALSE),
         MkQuery(Undefined, <<"T">>, Undefined, FALSE),
         MkQuery(<<"E">>, Undefined, Undefined, FALSE) }

DeleteAllInstallations ==
  { MkInstallation(Undefined, <<"T">>, <<"U">>, FALSE, 1),
    MkInstallation(Undefined, <<"T", "1">>, <<"U">>, FALSE, 1),
    MkInstallation(<<"E">>, <<"T">>, <<"V">>, TRUE, 1) }

DeleteAllQueries ==
  { MkQuery(Undefined, Undefined, Undefined, FALSE),
    MkQuery(Undefined, <<"T">>, Undefined, FALSE),
    MkQuery(Undefined, <<"T", "1">>, <<"U">>, FALSE),
    MkQuery(<<"E">>, Undefined, Undefined, FALSE) }

----------------------------------------------------------------------------
(* Calls.  A call is a record: the method, the await it is suspended at,   *)
(* its arguments and locals, the requests it has issued so far (trace),     *)
(* how it ended (result), and for a save whether no other call has written  *)
(* to the namespace since it began (clean).                                  *)

Pending == [kind |-> "pending"]
Return(v) == [kind |-> "return", value |-> v]
Throw(e) == [kind |-> "throw", error |-> e]

Idle ==
  [op |-> "idle", pc |-> "done", client |-> <<>>, arg |-> UndefinedObject,
   loc |-> UndefinedObject, trace |-> <<>>, result |-> Pending, clean |-> TRUE]

NewCall(op, pc, client, arg, loc) ==
  [op |-> op, pc |-> pc, client |-> client, arg |-> arg,
   loc |-> loc, trace |-> <<>>, result |-> Pending, clean |-> TRUE]

\* a call may start in the first free task (the tasks are interchangeable)
CanStart(t) ==
  /\ calls[t].op = "idle"
  /\ \A u \in Tasks : u < t => calls[u].op # "idle"
  /\ ncalls < MaxCalls

\* the call that ended last, forgotten when task t begins a call
LastEnded(t) == IF calls[t].op = "idle" THEN Idle ELSE finished

\* the call of task t becomes rec, having only read the namespace; a call
\* that has ended leaves its task free
Step(t, rec) ==
  IF rec.pc = "done"
  THEN calls' = [calls EXCEPT ![t] = Idle] /\ finished' = rec
  ELSE calls' = [calls EXCEPT ![t] = rec] /\ finished' = LastEnded(t)

Disturbed(c) == IF c.op = "save" THEN [c EXCEPT !.clean = FALSE] ELSE c

\* the call of task t becomes rec, having written to the namespace
StepWriting(t, rec) ==
  /\ calls' = [u \in Tasks |->
                 IF u # t THEN Disturbed(calls[u])
                 ELSE IF rec.pc = "done" THEN Idle ELSE rec]
  /\ finished' = IF rec.pc = "done" THEN rec ELSE Disturbed(LastEnded(t))

Finish(c, res) == [c EXCEPT !.pc = "done", !.result = res]

Log(c, event) == [c EXCEPT !.trace = Append(@, event)]

----------------------------------------------------------------------------
(* save, find*, delete* *)

\* what findBotInstallation(query) of the store bound to clientId resolves to
findBotInstallation(ns, clientId, query) ==
  LET storedString == KVGet(ns, toBotInstallationQuery(clientId, query))
  IN  IF TruthyText(storedString)
      THEN LET parsed == JSONparse(storedString)
           IN  IF parsed.ok THEN Return(parsed.value) ELSE Throw(parsed.error)
      ELSE Return(UndefinedObject)

findUserInstallation(ns, clientId, query) ==
  LET storedString == KVGet(ns, toUserInstallationQuery(clientId, query))
  IN  IF TruthyText(storedString)
      THEN LET parsed == JSONparse(storedString)
           IN  IF parsed.ok THEN Return(parsed.value) ELSE Throw(parsed.error)
      ELSE Return(UndefinedObject)

SaveBotKeyShared(clientId, installation) == toBotInstallationKey(<<"C">>, installation)

\* the first put of save(installation)
SaveBotKey(clientId, installation) == toBotInstallationKey(clientId, installation)

\* the second put of save(installation)
SaveUserKey(clientId, installation) == toUserInstallationKey(clientId, installation)

\* save is called and its first put resolves or rejects
SavePutBot(t, clientId, installation, ok) ==
  /\ CanStart(t)
  /\ ncalls' = ncalls + 1
  /\ LET key == SaveBotKey(clientId, installation)
         c == Log(NewCall("save", "putUser", clientId, installation, UndefinedObject),
                  [ev |-> "put", key |-> key])
     IN  IF ok
         THEN /\ storage' = KVPut(storage, key, JSONstringify(installation))
              /\ StepWriting(t, c)
         ELSE /\ storage' = storage
              /\ Step(t, Finish(c, Throw(KVError)))
  /\ UNCHANGED <<cache, config, probe>>

\* the second put of save resolves or rejects
SavePutUser(t, ok) ==
  /\ calls[t].op = "save" /\ calls[t].pc = "putUser"
  /\ LET key == SaveUserKey(calls[t].client, calls[t].arg)
         c == Log(calls[t], [ev |-> "put", key |-> key])
     IN  IF ok
         THEN /\ storage' = KVPut(storage, key, JSONstringify(calls[t].arg))
              /\ StepWriting(t, Finish(c, Return(UndefinedObject)))
         ELSE /\ storage' = storage
              /\ Step(t, Finish(c, Throw(KVError)))
  /\ UNCHANGED <<cache, config, ncalls, probe>>

FindBot(t, clientId, query, ok) ==
  /\ CanStart(t)
  /\ ncalls' = ncalls + 1
  /\ LET c == Log(NewCall("findBotInstallation", "get", clientId, query, UndefinedObject),
                  [ev |-> "get", key |-> toBotInstallationQuery(clientId, query)])
     IN  Step(t, Finish(c, IF ok THEN findBotInstallation(storage, clientId, query)
                           ELSE Throw(KVError)))
  /\ UNCHANGED <<storage, cache, config, probe>>

FindUser(t, clientId, query, ok) ==
  /\ CanStart(t)
  /\ ncalls' = ncalls + 1
  /\ LET c == Log(NewCall("findUserInstallation", "get", clientId, query, UndefinedObject),
                  [ev |-> "get", key |-> toUserInstallationQuery(clientId, query)])
     IN  Step(t, Finish(c, IF ok THEN findUserInstallation(storage, clientId, query)
                           ELSE Throw(KVError)))
  /\ UNCHANGED <<storage, cache, config, probe>>

DeleteBot(t, clientId, query, ok) ==
  /\ CanStart(t)
  /\ ncalls' = ncalls + 1
  /\ LET key == toBotInstallationQuery(clientId, query)
         c == Log(NewCall("deleteBotInstallation", "delete", clientId, query, UndefinedObject),
                  [ev |-> "delete", key |-> key])
     IN  IF ok
         THEN /\ storage' = KVDelete(storage, key)
              /\ StepWriting(t, Finish(c, Return(UndefinedObject)))
         ELSE /\ storage' = storage
              /\ Step(t, Finish(c, Throw(KVError)))
  /\ UNCHANGED <<cache, config, probe>>

DeleteUser(t, clientId, query, ok) ==
  /\ CanStart(t)
  /\ ncalls' = ncalls + 1
  /\ LET key == toUserInstallationQuery(clientId, query)
         c == Log(NewCall("deleteUserInstallation", "delete", clientId, query, UndefinedObject),
                  [ev |-> "delete", key |-> key])
     IN  IF ok
         THEN /\ storage' = KVDelete(storage, key)
              /\ StepWriting(t, Finish(c, Return(UndefinedObject)))
         ELSE /\ storage' = storage
              /\ Step(t, Finish(c, Throw(KVError)))
  /\ UNCHANGED <<cache, config, probe>>

----------------------------------------------------------------------------
(* deleteAll *)

DeleteAllUnguarded(query) == TRUE

\* the guard `if (!query.enterpriseId && !query.teamId) return`, negated
DeleteAllScoped(query) == Truthy(query.enterpriseId) \/ Truthy(query.teamId)

DeleteAllPrefix(clientId, query) ==
  LET e == TruthyOr(query.enterpriseId, <<"_">>)
  IN  IF Truthy(query.teamId)
      THEN clientId \o <<"/">> \o e \o <<":">> \o query.teamId
      ELSE clientId \o <<"/">> \o e \o <<":">>

FirstCursorInverted(first) == IF first.list_complete THEN first.cursor ELSE Undefined

\* the cursor the loop goes on with after the first page
FirstCursor(first) == IF ~first.list_complete THEN first.cursor ELSE Undefined

\* `cursor = response.list_complete ? undefined : response.cursor`
NextCursor(response) == IF response.list_complete THEN Undefined ELSE response.cursor

\* a loop that lists on whatever the cursor
AfterListListing(c, keys, cursor) ==
  [c EXCEPT !.loc.keys = keys, !.loc.cursor = cursor, !.pc = "list"]

\* where deleteAll goes on once the listing has ended or not
AfterList(c, keys, cursor) ==
  LET d == [c EXCEPT !.loc.keys = keys, !.loc.cursor = cursor]
  IN  IF Truthy(cursor) THEN [d EXCEPT !.pc = "list"]
      ELSE IF d.loc.i <= Len(keys) THEN [d EXCEPT !.pc = "delete"]
      ELSE Finish(d, Return(UndefinedObject))

ListEvent(cursor, response) ==
  [ev |-> "list", cursor |-> cursor, keys |-> response.keys,
   list_complete |-> response.list_complete, next |-> response.cursor]

\* deleteAll is called: it returns at once, or its first list resolves with
\* a page of at most n names, or rejects
DeleteAllCall(t, clientId, query, n, ok) ==
  /\ CanStart(t)
  /\ ncalls' = ncalls + 1
  /\ LET prefix == DeleteAllPrefix(clientId, query)
         c == NewCall("deleteAll", "list", clientId, query,
                      [prefix |-> prefix, keys |-> <<>>, cursor |-> Undefined, i |-> 1])
         first == KVList(storage, prefix, Undefined, n)
     IN  IF ~DeleteAllScoped(query) THEN Step(t, Finish(c, Return(UndefinedObject)))
         ELSE IF ~ok THEN Step(t, Finish(Log(c, [ev |-> "list rejected",
                                                 cursor |-> Undefined]),
                                         Throw(KVError)))
         ELSE Step(t, AfterList(Log(c, ListEvent(Undefined, first)),
                                first.keys, FirstCursor(first)))
  /\ UNCHANGED <<storage, cache, config, probe>>

\* a later list of the pagination loop resolves or rejects
DeleteAllList(t, n, ok) ==
  /\ calls[t].op = "deleteAll" /\ calls[t].pc = "list"
  /\ LET c == calls[t]
         response == KVList(storage, c.loc.prefix, c.loc.cursor, n)
     IN  IF ~ok THEN Step(t, Finish(Log(c, [ev |-> "list rejected",
                                            cursor |-> c.loc.cursor]),
                                    Throw(KVError)))
         ELSE Step(t, AfterList(Log(c, ListEvent(c.loc.cursor, response)),
                                c.loc.keys \o response.keys, NextCursor(response)))
  /\ UNCHANGED <<storage, cache, config, ncalls, probe>>

\* one delete of the final loop resolves or rejects
DeleteAllDelete(t, ok) ==
  /\ calls[t].op = "deleteAll" /\ calls[t].pc = "delete"
  /\ LET c == calls[t]
         key == c.loc.keys[c.loc.i]
         d == Log([c EXCEPT !.loc.i = @ + 1], [ev |-> "delete", key |-> key])
     IN  IF ~ok THEN /\ storage' = storage
                     /\ Step(t, Finish(d, Throw(KVError)))
         ELSE /\ storage' = KVDelete(storage, key)
              /\ StepWriting(t, IF d.loc.i <= Len(d.loc.keys) THEN d
                                ELSE Finish(d, Return(UndefinedObject)))
  /\ UNCHANGED <<cache, config, ncalls, probe>>

----------------------------------------------------------------------------
(* The collaborators of the authorize flow *)

\* a token, refresh token or expiry the token endpoint issues in place of x
Fresh(x) == Append(x, "+")

TokenRotationError == [type |-> "TokenRotationError"]
SlackAPIError == [type |-> "SlackAPIError"]

\* what performRotation resolves to for one target: nothing, or the
\* refreshed triple
Refreshed(target) ==
  [access_token |-> Fresh(target.access_token),
   refresh_token |-> Fresh(target.refresh_token),
   token_expires_at |-> Fresh(target.token_expires_at)]

\* Header names are case-insensitive: the lower-case spelling of a name
LowerCase(name) ==
  CASE name \in {"x-oauth-scopes", "X-OAuth-Scopes", "X-OAUTH-SCOPES"} -> "x-oauth-scopes"
    [] name \in {"set-cookie", "Set-Cookie", "SET-COOKIE"} -> "set-cookie"
    [] name \in {"retry-after", "Retry-After", "RETRY-AFTER"} -> "retry-after"

\* the lower-case names in the order Headers iterates: sorted
SortedHeaderNames == <<"retry-after", "set-cookie", "x-oauth-scopes">>

\* a Headers object: its header list, <<name, value>> pairs in the order received
MkHeaders(list) == [kind |-> "Headers", list |-> list]

RECURSIVE ValuesOf(_, _)
\* the values of the headers of a list whose name is lname whatever the case
ValuesOf(list, lname) ==
  IF list = <<>> THEN <<>>
  ELSE (IF LowerCase(Head(list)[1]) = lname THEN <<Head(list)[2]>> ELSE <<>>)
       \o ValuesOf(Tail(list), lname)

RECURSIVE Join(_)
\* values combined with ", "
Join(values) ==
  IF Len(values) = 1 THEN values[1]
  ELSE values[1] \o <<", ">> \o Join(Tail(values))

\* `headers.get(name)`: the combined value, or null (here Undefined)
HeadersGet(headers, name) ==
  LET values == ValuesOf(headers.list, LowerCase(name))
  IN  IF values = <<>> THEN Undefined ELSE Join(values)

RECURSIVE EntriesFrom(_, _)
EntriesFrom(list, names) ==
  IF names = <<>> THEN <<>>
  ELSE LET values == ValuesOf(list, Head(names))
           here == IF values = <<>> THEN <<>>
                   ELSE IF Head(names) = "set-cookie"
                   THEN [i \in DOMAIN values |-> <<"set-cookie", values[i]>>]
                   ELSE << <<Head(names), Join(values)>> >>
       IN  here \o EntriesFrom(list, Tail(names))

\* `headers.entries()`: lower-case names in sorted order, the values of a
\* name combined, but one entry for each Set-Cookie header
HeadersEntries(headers) == EntriesFrom(headers.list, SortedHeaderNames)

\* `Object.fromEntries(entries)`: a later entry of a name replaces an earlier one
ObjectFromEntries(entries) ==
  [kind |-> "Object",
   props |-> [name \in {entries[i][1] : i \in DOMAIN entries} |->
                LET at == {i \in DOMAIN entries : entries[i][1] = name}
                IN  entries[CHOOSE i \in at : \A j \in at : j <= i][2]]]

\* `new Headers(object)`: one header for each property, in property order
NewHeaders(object) ==
  MkHeaders(SelectSeq([i \in DOMAIN SortedHeaderNames |->
                         IF SortedHeaderNames[i] \in DOMAIN object.props
                         THEN <<SortedHeaderNames[i], object.props[SortedHeaderNames[i]]>>
                         ELSE <<>>],
                      LAMBDA e : e # <<>>))

\* whom auth.test reports for a token
IdentityOf(token) == <<"identity of">> \o token

\* The response of auth.test for the client's token.  Headers is the
\* header collection of the response, an object of its own kind.
AuthTestResponse(token, ok) ==
  [ok |-> ok,
   error |-> IF ok THEN Undefined ELSE <<"invalid_auth">>,
   user |-> IF ok THEN IdentityOf(token) ELSE Undefined,
   user_id |-> IF ok THEN <<"id of">> \o token ELSE Undefined,
   bot_id |-> IF ok THEN <<"bot of">> \o token ELSE Undefined,
   team |-> IF ok THEN <<"team of">> \o token ELSE Undefined,
   url |-> IF ok THEN <<"url of">> \o token ELSE Undefined,
   headers |-> MkHeaders(IF ok THEN << <<"X-OAuth-Scopes", <<"chat:write,commands">>>> >>
                         ELSE <<>>)]

\* `{...rest, headers: Object.fromEntries(headers.entries())}`
toSerializableSlackAPIResponse(response) ==
  [response EXCEPT !.headers = ObjectFromEntries(HeadersEntries(response.headers))]

\* `{...rest, headers: new Headers(response.headers)}`
fromSerializableSlackAPIResponse(response) ==
  [response EXCEPT !.headers = NewHeaders(response.headers)]

\* a stored string with the expirationTtl it was put with
CacheEntry(string, expirationTtl) ==
  [type |-> string.type, text |-> string.text, value |-> string.value,
   expirationTtl |-> expirationTtl]

\* `expirationTtl: permanentCacheEnabled ? undefined : this.#authTestCacheExpirationSecs`;
\* 0 stands for no expirationTtl
\* a put that passes the configured seconds whatever their sign
CacheExpirationTtlUnguarded(secs) == secs

CacheExpirationTtl(secs) == IF secs <= 0 THEN 0 ELSE secs

----------------------------------------------------------------------------
(* toAuthorize: the function it returns *)

\* the query built from req.context
ContextQuery(context) ==
  MkQuery(context.enterpriseId, context.teamId, context.userId,
          context.isEnterpriseInstall)

\* userQuery: the query, with the actor's identity unless the policy is "installer"
UserQuery(resolution, query, context) ==
  IF resolution # "installer"
  THEN [query EXCEPT !.enterpriseId = context.actorEnterpriseId,
                     !.teamId = context.actorTeamId,
                     !.userId = context.actorUserId]
  ELSE query

\* the argument of `await this.findUserInstallation(query)`
UserLookup(query, userQuery) == query

\* `throw new AuthorizeError(`Failed to authorize (error: ${e}, query:
\* ${JSON.stringify(query)})`)`: the message holds the two interpolations
AuthorizeError(e, query) ==
  [type |-> "AuthorizeError",
   message |-> [error |-> <<e.type>>, query |-> JSONstringify(query)]]

Rethrow(c, e) == Finish(c, Throw(e))

\* the catch clause of the flow
Catch(c, e) == Finish(c, Throw(AuthorizeError(e, c.loc.query)))

\* the token callAuthTest is given: bot?.bot_token, then user.user_token
AuthTestToken(c) ==
  IF c.loc.phase = "bot"
  THEN (IF c.loc.bot = UndefinedObject THEN Undefined ELSE c.loc.bot.bot_token)
  ELSE c.loc.user.user_token

\* the token of the client callAuthTest is given: botClient both times
AuthTestClientToken(c) ==
  IF c.loc.bot = UndefinedObject THEN Undefined ELSE c.loc.bot.bot_token

AuthTestCachedAlways(c) == TRUE

\* `token && this.#authTestCacheEnabled && this.#authTestCacheNamespace`
AuthTestCached(c) == Truthy(AuthTestToken(c)) /\ config.authTestCacheEnabled

AuthTestSucceededAlways(response) == TRUE

\* `authTestResponse?.ok && !authTestResponse.error`
AuthTestSucceeded(response) == response.ok /\ ~Truthy(response.error)

CacheHitNever(cachedResponse) == FALSE

\* `if (cachedResponse)`
CacheHit(cachedResponse) == TruthyText(cachedResponse)

\* callAuthTest is entered: its first await
EnterAuthTest(c) == [c EXCEPT !.pc = IF AuthTestCached(c) THEN "cacheGet" ELSE "authTest"]

\* `botScopes = botAuthTest.headers.get("x-oauth-scopes")?.split(",") ?? bot?.bot_scopes ?? []`
BotScopes(botAuthTest, bot) ==
  IF HeadersGet(botAuthTest.headers, "x-oauth-scopes") # Undefined
  THEN HeadersGet(botAuthTest.headers, "x-oauth-scopes")
  ELSE IF bot # UndefinedObject /\ bot.bot_scopes # Undefined THEN bot.bot_scopes
  ELSE <<>>

\* the AuthorizeResult the flow returns
AuthorizeResult(bot, user, botAuthTest, userAuthTest) ==
  [enterpriseId |-> IF bot = UndefinedObject THEN Undefined ELSE bot.enterprise_id,
   teamId |-> IF bot = UndefinedObject THEN Undefined ELSE bot.team_id,
   team |-> botAuthTest.team,
   url |-> botAuthTest.url,
   botId |-> botAuthTest.bot_id,
   botUserId |-> botAuthTest.user_id,
   botToken |-> IF bot = UndefinedObject THEN Undefined ELSE bot.bot_token,
   botScopes |-> BotScopes(botAuthTest, bot),
   userId |-> IF user = UndefinedObject THEN Undefined ELSE user.user_id,
   user |-> IF userAuthTest = UndefinedObject THEN Undefined ELSE userAuthTest.user,
   userToken |-> IF user = UndefinedObject THEN Undefined ELSE user.user_token,
   userScopes |-> IF user = UndefinedObject THEN Undefined ELSE user.user_scopes]

\* a request of the flow that failed
Failure(c, ev) == [ev |-> ev, phase |-> c.loc.phase]

\* the installation of the phase: bot, then user
Rotated(c) == IF c.loc.phase = "bot" THEN c.loc.bot ELSE c.loc.user

\* the argument of performRotation
RotationTarget(installation, phase) ==
  IF phase = "bot"
  THEN [access_token |-> installation.bot_token,
        refresh_token |-> installation.bot_refresh_token,
        token_expires_at |-> installation.bot_token_expires_at]
  ELSE [access_token |-> installation.user_token,
        refresh_token |-> installation.user_refresh_token,
        token_expires_at |-> installation.user_token_expires_at]

ApplyRefreshedTokenOnly(installation, phase, refreshed) ==
  IF phase = "bot"
  THEN [installation EXCEPT !.bot_token = refreshed.access_token]
  ELSE [installation EXCEPT !.user_token = refreshed.access_token]

\* the three assignments after `if (maybeRefreshed && maybeRefreshed.bot)`
ApplyRefreshed(installation, phase, refreshed) ==
  IF phase = "bot"
  THEN [installation EXCEPT !.bot_token = refreshed.access_token,
                            !.bot_refresh_token = refreshed.refresh_token,
                            !.bot_token_expires_at = refreshed.token_expires_at]
  ELSE [installation EXCEPT !.user_token = refreshed.access_token,
                            !.user_refresh_token = refreshed.refresh_token,
                            !.user_token_expires_at = refreshed.token_expires_at]

\* after the rotation of the phase: the bot's auth.test, or for the user
\* its auth.test if there is a user installation and else the result
AfterRotation(c) ==
  IF c.loc.phase = "bot" \/ c.loc.user # UndefinedObject
  THEN EnterAuthTest(c)
  ELSE Finish(c, Return(AuthorizeResult(c.loc.bot, c.loc.user,
                                        c.loc.botAuthTest, c.loc.userAuthTest)))

AfterNoRotationSaving(c) == [c EXCEPT !.pc = "savePutBot"]

\* after performRotation has resolved to nothing: no assignment and no save
AfterNoRotation(c) == AfterRotation(c)

RotationRejectedContinues(c) == AfterNoRotation(c)

\* after performRotation has rejected: no try statement encloses the call but
\* that of the whole flow
RotationRejected(c) == Catch(c, TokenRotationError)

\* after findBotInstallation / findUserInstallation has resolved to found:
\* the rotation if the installation has the phase's refresh token
AfterFind(c, found) ==
  LET d == IF c.loc.phase = "bot" THEN [c EXCEPT !.loc.bot = found]
           ELSE [c EXCEPT !.loc.user = found]
      refresh == IF found = UndefinedObject THEN Undefined
                 ELSE IF c.loc.phase = "bot" THEN found.bot_refresh_token
                 ELSE found.user_refresh_token
  IN  IF Truthy(refresh) THEN [d EXCEPT !.pc = "rotate"] ELSE AfterRotation(d)

\* after callAuthTest has resolved to response: the user lookup, or the result
AfterAuthTest(c, response) ==
  IF c.loc.phase = "bot"
  THEN [c EXCEPT !.loc.botAuthTest = response, !.loc.phase = "user", !.pc = "findUser"]
  ELSE LET d == [c EXCEPT !.loc.userAuthTest = response]
       IN  Finish(d, Return(AuthorizeResult(d.loc.bot, d.loc.user,
                                            d.loc.botAuthTest, d.loc.userAuthTest)))

\* the function is called and findBotInstallation resolves or rejects
AuthorizeCall(t, clientId, context, ok) ==
  /\ calls[t].op = "idle"
  /\ \A u \in Tasks : u < t => calls[u].op # "idle"
  /\ ncalls < MaxAuthorizeCalls
  /\ ncalls' = ncalls + 1
  /\ LET query == ContextQuery(context)
         key == toBotInstallationQuery(clientId, query)
         c == NewCall("authorize", "findBot", clientId, context,
                      [query |-> query, phase |-> "bot",
                       bot |-> UndefinedObject, user |-> UndefinedObject,
                       botAuthTest |-> UndefinedObject, userAuthTest |-> UndefinedObject,
                       authTestResponse |-> UndefinedObject])
         found == findBotInstallation(storage, clientId, query)
     IN  IF ~ok THEN Step(t, Catch(Log(c, Failure(c, "get rejected")), KVError))
         ELSE IF found.kind = "throw"
         THEN Step(t, Catch(Log(c, Failure(c, "JSON.parse threw")), found.error))
         ELSE Step(t, AfterFind(Log(c, [ev |-> "get", phase |-> "bot", key |-> key,
                                        found |-> found.value]),
                                found.value))
  /\ UNCHANGED <<storage, cache, config, probe>>

\* performRotation resolves to nothing or to refreshed credentials, or rejects
AuthorizeRotate(t, outcome) ==
  /\ calls[t].op = "authorize" /\ calls[t].pc = "rotate"
  /\ LET c == calls[t]
         refreshed == Refreshed(RotationTarget(Rotated(c), c.loc.phase))
         applied == ApplyRefreshed(Rotated(c), c.loc.phase, refreshed)
         d == IF c.loc.phase = "bot" THEN [c EXCEPT !.loc.bot = applied]
              ELSE [c EXCEPT !.loc.user = applied]
     IN  CASE outcome = "throw" ->
                Step(t, RotationRejected(Log(c, Failure(c, "performRotation threw"))))
           [] outcome = "none" ->
                Step(t, AfterNoRotation(Log(c, [ev |-> "performRotation",
                                               phase |-> c.loc.phase,
                                               refreshed |-> FALSE])))
           [] outcome = "refreshed" ->
                Step(t, [Log(d, [ev |-> "performRotation", phase |-> c.loc.phase,
                                 refreshed |-> TRUE])
                           EXCEPT !.pc = "savePutBot"])
  /\ UNCHANGED <<storage, cache, config, ncalls, probe>>

\* the first put of `await this.save(bot)` / `await this.save(user)`
AuthorizeSavePutBot(t, ok) ==
  /\ calls[t].op = "authorize" /\ calls[t].pc = "savePutBot"
  /\ LET c == calls[t]
         key == SaveBotKey(c.client, Rotated(c))
     IN  IF ok
         THEN /\ storage' = KVPut(storage, key, JSONstringify(Rotated(c)))
              /\ StepWriting(t, [Log(c, [ev |-> "put", phase |-> c.loc.phase,
                                           key |-> key, value |-> Rotated(c)])
                                   EXCEPT !.pc = "savePutUser"])
         ELSE /\ storage' = storage
              /\ Step(t, Catch(Log(c, Failure(c, "put rejected")), KVError))
  /\ UNCHANGED <<cache, config, ncalls, probe>>

\* the second put of `await this.save(bot)` / `await this.save(user)`
AuthorizeSavePutUser(t, ok) ==
  /\ calls[t].op = "authorize" /\ calls[t].pc = "savePutUser"
  /\ LET c == calls[t]
         key == SaveUserKey(c.client, Rotated(c))
     IN  IF ok
         THEN /\ storage' = KVPut(storage, key, JSONstringify(Rotated(c)))
              /\ StepWriting(t, AfterRotation(Log(c, [ev |-> "put", phase |-> c.loc.phase,
                                                   key |-> key, value |-> Rotated(c)])))
         ELSE /\ storage' = storage
              /\ Step(t, Catch(Log(c, Failure(c, "put rejected")), KVError))
  /\ UNCHANGED <<cache, config, ncalls, probe>>

\* callAuthTest: the cache lookup resolves or rejects
AuthorizeCacheGet(t, ok) ==
  /\ calls[t].op = "authorize" /\ calls[t].pc = "cacheGet"
  /\ LET c == calls[t]
         token == AuthTestToken(c)
         cachedResponse == KVGet(cache, token)
     IN  IF ~ok
         THEN Step(t, Catch(Log(c, Failure(c, "cache get rejected")), KVError))
         ELSE IF CacheHit(cachedResponse)
         THEN Step(t, AfterAuthTest(
                        Log(c, [ev |-> "cache get", phase |-> c.loc.phase,
                                key |-> token, hit |-> TRUE,
                                cached |-> cachedResponse]),
                        fromSerializableSlackAPIResponse(JSONparse(cachedResponse).value)))
         ELSE Step(t, [Log(c, [ev |-> "cache get", phase |-> c.loc.phase,
                                  key |-> token, hit |-> FALSE,
                                  cached |-> cachedResponse])
                         EXCEPT !.pc = "authTest"])
  /\ UNCHANGED <<storage, cache, config, ncalls, probe>>

\* callAuthTest: client.auth.test() resolves to a response or rejects; Slack
\* accepts no request without a token
AuthorizeAuthTest(t, outcome) ==
  /\ calls[t].op = "authorize" /\ calls[t].pc = "authTest"
  /\ outcome = "ok" => Truthy(AuthTestClientToken(calls[t]))
  /\ LET c == calls[t]
         token == AuthTestClientToken(c)
         authTestResponse == AuthTestResponse(token, outcome = "ok")
         d == Log(c, [ev |-> "auth.test", phase |-> c.loc.phase, token |-> token,
                      response |-> authTestResponse])
     IN  IF outcome = "throw"
         THEN Step(t, Catch(Log(c, Failure(c, "auth.test threw")), SlackAPIError))
         ELSE IF AuthTestCached(c) /\ AuthTestSucceeded(authTestResponse)
         THEN Step(t, [d EXCEPT !.pc = "cachePut",
                                !.loc.authTestResponse = authTestResponse])
         ELSE Step(t, AfterAuthTest(d, authTestResponse))
  /\ UNCHANGED <<storage, cache, config, ncalls, probe>>

\* callAuthTest: the cache write resolves or rejects
AuthorizeCachePut(t, ok) ==
  /\ calls[t].op = "authorize" /\ calls[t].pc = "cachePut"
  /\ LET c == calls[t]
         token == AuthTestToken(c)
         value == JSONstringify(toSerializableSlackAPIResponse(c.loc.authTestResponse))
     IN  IF ok
         THEN /\ cache' = KVPut(cache, token,
                                CacheEntry(value, CacheExpirationTtl(
                                                    config.authTestCacheExpirationSecs)))
              /\ Step(t, AfterAuthTest(
                            Log(c, [ev |-> "cache put", phase |-> c.loc.phase,
                                    key |-> token,
                                    expirationTtl |->
                                      CacheExpirationTtl(config.authTestCacheExpirationSecs)]),
                            c.loc.authTestResponse))
         ELSE /\ cache' = cache
              /\ Step(t, Catch(Log(c, Failure(c, "cache put rejected")), KVError))
  /\ UNCHANGED <<storage, config, ncalls, probe>>

\* the namespace drops an entry that was put with an expirationTtl
CacheExpire(key) ==
  /\ key \in DOMAIN cache
  /\ cache[key].expirationTtl > 0
  /\ cache' = KVDelete(cache, key)
  /\ UNCHANGED <<storage, calls, finished, config, ncalls, probe>>

\* findUserInstallation resolves or rejects
AuthorizeFindUser(t, ok) ==
  /\ calls[t].op = "authorize" /\ calls[t].pc = "findUser"
  /\ LET c == calls[t]
         userQuery == UserQuery(config.SLACK_USER_TOKEN_RESOLUTION, c.loc.query, c.arg)
         lookup == UserLookup(c.loc.query, userQuery)
         key == toUserInstallationQuery(c.client, lookup)
         found == findUserInstallation(storage, c.client, lookup)
     IN  IF ~ok THEN Step(t, Catch(Log(c, Failure(c, "get rejected")), KVError))
         ELSE IF found.kind = "throw"
         THEN Step(t, Catch(Log(c, Failure(c, "JSON.parse threw")), found.error))
         ELSE Step(t, AfterFind(Log(c, [ev |-> "get", phase |-> "user", key |-> key,
                                        found |-> found.value]),
                                found.value))
  /\ UNCHANGED <<storage, cache, config, ncalls, probe>>

----------------------------------------------------------------------------
(* The store under concurrent save, find* and delete* calls; the namespace  *)
(* answers every request.                                                    *)

NoProbe == [applied |-> FALSE]

Init ==
  /\ storage = <<>>
  /\ cache = <<>>
  /\ calls = [t \in Tasks |-> Idle]
  /\ finished = Idle
  /\ config = DefaultConfig
  /\ ncalls = 0
  /\ probe = NoProbe

Next ==
  \E t \in Tasks :
    \/ \E c \in ClientIds, i \in StoreInstallations : SavePutBot(t, c, i, TRUE)
    \/ SavePutUser(t, TRUE)
    \/ \E c \in ClientIds, q \in StoreQueries : FindBot(t, c, q, TRUE)
    \/ \E c \in ClientIds, q \in StoreQueries : FindUser(t, c, q, TRUE)
    \/ \E c \in ClientIds, q \in StoreQueries : DeleteBot(t, c, q, TRUE)
    \/ \E c \in ClientIds, q \in StoreQueries : DeleteUser(t, c, q, TRUE)

Spec == Init /\ [][Next]_vars

----------------------------------------------------------------------------
(* deleteAll calls concurrent with save calls; the namespace may reject a   *)
(* list or a delete.                                                         *)

NextDeleteAll ==
  \E t \in Tasks :
    \/ \E c \in ClientIds, i \in DeleteAllInstallations : SavePutBot(t, c, i, TRUE)
    \/ SavePutUser(t, TRUE)
    \/ \E c \in ClientIds, q \in DeleteAllQueries, n \in 1..PageLimit, ok \in BOOLEAN :
         DeleteAllCall(t, c, q, n, ok)
    \/ \E n \in 1..PageLimit, ok \in BOOLEAN : DeleteAllList(t, n, ok)
    \/ \E ok \in BOOLEAN : DeleteAllDelete(t, ok)

SpecDeleteAll == Init /\ [][NextDeleteAll]_vars

\* every request deleteAll awaits settles: the list and the delete a call is
\* suspended at resolve or reject in the end
FairDeleteAll ==
  \A t \in Tasks :
    /\ WF_vars(\E n \in 1..PageLimit, ok \in BOOLEAN : DeleteAllList(t, n, ok))
    /\ WF_vars(\E ok \in BOOLEAN : DeleteAllDelete(t, ok))

SpecDeleteAllLive == Init /\ [][NextDeleteAll]_vars /\ FairDeleteAll

----------------------------------------------------------------------------
(* The authorize function called on a namespace that earlier saves have     *)
(* filled; every request to a collaborator may fail.                         *)

\* an installation with token rotation enabled
WithRefreshTokens(i) ==
  [i EXCEPT !.bot_refresh_token = <<"xoxe-1">>, !.bot_token_expires_at = <<"t1">>,
            !.user_refresh_token = <<"xoxe-p-1">>, !.user_token_expires_at = <<"t1">>]

InstallerU == WithRefreshTokens(MkInstallation(Undefined, <<"T">>, <<"U">>, FALSE, 1))
InstallerV == MkInstallation(Undefined, <<"T">>, <<"V">>, FALSE, 2)

RECURSIVE SavedAll(_, _, _)
\* the namespace after save of each installation of a sequence, in order
SavedAll(ns, clientId, installations) ==
  IF installations = <<>> THEN ns
  ELSE LET i == Head(installations)
           afterBot == KVPut(ns, SaveBotKey(clientId, i), JSONstringify(i))
           afterUser == KVPut(afterBot, SaveUserKey(clientId, i), JSONstringify(i))
       IN  SavedAll(afterUser, clientId, Tail(installations))

\* the namespace with text that is no JSON document left under one of its keys
Corrupted(ns) == {[ns EXCEPT ![k] = MalformedText] : k \in DOMAIN ns}

AuthorizeStores ==
  LET saved == {SavedAll(<<>>, <<"C">>, q) :
                  q \in {<<>>, <<InstallerU>>, <<InstallerU, InstallerV>>,
                         <<InstallerV, InstallerU>>}}
  IN  saved \cup Corrupted(SavedAll(<<>>, <<"C">>, <<InstallerU>>))

\* the cache as an earlier call of the function left it
WarmCache ==
  KVPut(<<>>, InstallerU.bot_token,
        CacheEntry(JSONstringify(toSerializableSlackAPIResponse(
                                   AuthTestResponse(InstallerU.bot_token, TRUE))),
                   CacheExpirationTtl(DefaultAuthTestCacheExpirationSecs)))

AuthorizeConfigs ==
  [SLACK_USER_TOKEN_RESOLUTION : {"installer", "actor"},
   authTestCacheEnabled : BOOLEAN,
   authTestCacheExpirationSecs : {DefaultAuthTestCacheExpirationSecs}]

\* req.context
MkContext(e, t, u, ae, at, au) ==
  [enterpriseId |-> e, teamId |-> t, userId |-> u, isEnterpriseInstall |-> FALSE,
   actorEnterpriseId |-> ae, actorTeamId |-> at, actorUserId |-> au]

\* a request of actor V in the workspace user U installed the app to
AuthorizeContexts ==
  { MkContext(Undefined, <<"T">>, <<"U">>, Undefined, <<"T">>, <<"V">>) }

InitAuthorize ==
  /\ storage \in AuthorizeStores
  /\ config \in AuthorizeConfigs
  /\ cache \in IF config.authTestCacheEnabled THEN {<<>>, WarmCache} ELSE {<<>>}
  /\ calls = [t \in Tasks |-> Idle]
  /\ finished = Idle
  /\ ncalls = 0
  /\ probe = NoProbe

NextAuthorize ==
  \E t \in Tasks :
    \/ \E c \in ClientIds, x \in AuthorizeContexts, ok \in BOOLEAN :
         AuthorizeCall(t, c, x, ok)
    \/ \E outcome \in {"none", "refreshed", "throw"} : AuthorizeRotate(t, outcome)
    \/ \E ok \in BOOLEAN : AuthorizeSavePutBot(t, ok)
    \/ \E ok \in BOOLEAN : AuthorizeSavePutUser(t, ok)
    \/ \E ok \in BOOLEAN : AuthorizeCacheGet(t, ok)
    \/ \E outcome \in {"ok", "not ok", "throw"} : AuthorizeAuthTest(t, outcome)
    \/ \E ok \in BOOLEAN : AuthorizeCachePut(t, ok)
    \/ \E ok \in BOOLEAN : AuthorizeFindUser(t, ok)

SpecAuthorize == InitAuthorize /\ [][NextAuthorize]_vars

----------------------------------------------------------------------------
(* The authorize function under every setting of the auth.test cache, on a  *)
(* namespace that holds one installation; entries put with an expirationTtl *)
(* may expire at any time.                                                   *)

\* authTestCacheExpirationSecs: the default, zero and a negative value
CacheExpirationSecs == {DefaultAuthTestCacheExpirationSecs, 0, -1}

CacheConfigs ==
  [SLACK_USER_TOKEN_RESOLUTION : {"installer"},
   authTestCacheEnabled : BOOLEAN,
   authTestCacheExpirationSecs : CacheExpirationSecs]

\* the cache as an earlier call of a store with the same options left it
WarmCacheOf(secs) ==
  KVPut(<<>>, InstallerU.bot_token,
        CacheEntry(JSONstringify(toSerializableSlackAPIResponse(
                                   AuthTestResponse(InstallerU.bot_token, TRUE))),
                   CacheExpirationTtl(secs)))

InitCache ==
  /\ storage \in {<<>>, SavedAll(<<>>, <<"C">>, <<InstallerU>>)}
  /\ config \in CacheConfigs
  /\ cache \in IF config.authTestCacheEnabled
                THEN {<<>>, WarmCacheOf(config.authTestCacheExpirationSecs)}
                ELSE {<<>>}
  /\ calls = [t \in Tasks |-> Idle]
  /\ finished = Idle
  /\ ncalls = 0
  /\ probe = NoProbe

NextCache ==
  \/ NextAuthorize
  \/ \E key \in DOMAIN cache : CacheExpire(key)

SpecCache == InitCache /\ [][NextCache]_vars

----------------------------------------------------------------------------
(* find* calls on a namespace that holds what save wrote, text that is no   *)
(* JSON document, or an empty string; the namespace answers every request.  *)

\* the namespace with an empty string left under one of its keys
Emptied(ns) == {[ns EXCEPT ![k] = EmptyText] : k \in DOMAIN ns}

FindStores ==
  LET saved == SavedAll(<<>>, <<"C">>, <<InstallerU>>)
  IN  {<<>>, saved} \cup Corrupted(saved) \cup Emptied(saved)

InitFind ==
  /\ storage \in FindStores
  /\ cache = <<>>
  /\ calls = [t \in Tasks |-> Idle]
  /\ finished = Idle
  /\ config = DefaultConfig
  /\ ncalls = 0
  /\ probe = NoProbe

NextFind ==
  \E t \in Tasks :
    \/ \E c \in ClientIds, q \in StoreQueries : FindBot(t, c, q, TRUE)
    \/ \E c \in ClientIds, q \in StoreQueries : FindUser(t, c, q, TRUE)

SpecFind == InitFind /\ [][NextFind]_vars

----------------------------------------------------------------------------
(* Two stores bound to different client ids on one namespace that holds an  *)
(* installation of each; each store serves one call at a time and the       *)
(* namespace answers every request.                                          *)

\* env.SLACK_CLIENT_ID of the two apps; one is a prefix of the other
SharingClientIds == {<<"C">>, <<"C", "C">>}

ClientsInstallations == {InstallerU}

ClientsQueries == {MkQuery(Undefined, <<"T">>, <<"U">>, FALSE)}

InitClients ==
  /\ storage = SavedAll(SavedAll(<<>>, <<"C">>, <<InstallerU>>),
                        <<"C", "C">>, <<InstallerU>>)
  /\ cache = <<>>
  /\ calls = [t \in Tasks |-> Idle]
  /\ finished = Idle
  /\ config = DefaultConfig
  /\ ncalls = 0
  /\ probe = NoProbe

\* no call of the store bound to clientId is in flight
Free(clientId) == \A u \in Tasks : calls[u].op = "idle" \/ calls[u].client # clientId

NextClients ==
  \E t \in Tasks :
    \/ \E c \in SharingClientIds, i \in ClientsInstallations :
         Free(c) /\ SavePutBot(t, c, i, TRUE)
    \/ SavePutUser(t, TRUE)
    \/ \E c \in SharingClientIds, q \in ClientsQueries : Free(c) /\ DeleteBot(t, c, q, TRUE)
    \/ \E c \in SharingClientIds, q \in ClientsQueries : Free(c) /\ DeleteUser(t, c, q, TRUE)
    \/ \E c \in SharingClientIds, q \in ClientsQueries, n \in 1..PageLimit :
         Free(c) /\ DeleteAllCall(t, c, q, n, TRUE)
    \/ \E n \in 1..PageLimit : DeleteAllList(t, n, TRUE)
    \/ DeleteAllDelete(t, TRUE)
    \/ \E c \in SharingClientIds, x \in AuthorizeContexts :
         Free(c) /\ AuthorizeCall(t, c, x, TRUE)
    \/ \E outcome \in {"none", "refreshed"} : AuthorizeRotate(t, outcome)
    \/ AuthorizeSavePutBot(t, TRUE)
    \/ AuthorizeSavePutUser(t, TRUE)
    \/ AuthorizeAuthTest(t, "ok")
    \/ AuthorizeFindUser(t, TRUE)

SpecClients == InitClients /\ [][NextClients]_vars

----------------------------------------------------------------------------
(* save calls of two grants of one identity, concurrent with each other and *)
(* with the saves the authorize function issues after a rotation; every     *)
(* request resolves.                                                         *)

\* two installations of user U in team T, and so of one bot key and one
\* user key
SavesInstallations ==
  { MkInstallation(Undefined, <<"T">>, <<"U">>, FALSE, 1),
    MkInstallation(Undefined, <<"T">>, <<"U">>, FALSE, 2) }

InitSaves ==
  /\ storage = SavedAll(<<>>, <<"C">>, <<InstallerU>>)
  /\ cache = <<>>
  /\ calls = [t \in Tasks |-> Idle]
  /\ finished = Idle
  /\ config = DefaultConfig
  /\ ncalls = 0
  /\ probe = NoProbe

NextSaves ==
  \E t \in Tasks :
    \/ \E c \in ClientIds, i \in SavesInstallations : SavePutBot(t, c, i, TRUE)
    \/ SavePutUser(t, TRUE)
    \/ \E c \in ClientIds, x \in AuthorizeContexts : AuthorizeCall(t, c, x, TRUE)
    \/ \E outcome \in {"none", "refreshed"} : AuthorizeRotate(t, outcome)
    \/ AuthorizeSavePutBot(t, TRUE)
    \/ AuthorizeSavePutUser(t, TRUE)
    \/ AuthorizeAuthTest(t, "ok")
    \/ AuthorizeFindUser(t, TRUE)

SpecSaves == InitSaves /\ [][NextSaves]_vars

----------------------------------------------------------------------------
(* One call of the authorize function on a namespace in which the bot key   *)
(* holds the installation of the user who installed last.                    *)

\* the installation of user V with token rotation enabled
RotatingV == WithRefreshTokens(InstallerV)

\* U installed the app; then, or not, V installed it to the same workspace
RotationStores ==
  {SavedAll(<<>>, <<"C">>, q) : q \in {<<InstallerU>>, <<InstallerU, RotatingV>>}}

InitRotation ==
  /\ storage \in RotationStores
  /\ config \in AuthorizeConfigs
  /\ cache \in IF config.authTestCacheEnabled THEN {<<>>, WarmCache} ELSE {<<>>}
  /\ calls = [t \in Tasks |-> Idle]
  /\ finished = Idle
  /\ ncalls = 0
  /\ probe = NoProbe

SpecRotation == InitRotation /\ [][NextAuthorize]_vars

----------------------------------------------------------------------------
(* save of an installation, then deleteAll of the query of its identity,    *)
(* then the two lookups of that query, each call after the one before has   *)
(* returned; the namespace may hold the installation of another team.        *)

\* installations with an enterprise_id or a team_id
SaveDeleteAllInstallations ==
  { MkInstallation(Undefined, <<"T">>, <<"U">>, FALSE, 1),
    MkInstallation(Undefined, <<"T">>, Undefined, FALSE, 1),
    MkInstallation(<<"E">>, <<"T">>, <<"V">>, FALSE, 1),
    MkInstallation(<<"E">>, <<"T">>, <<"V">>, TRUE, 1),
    MkInstallation(<<"E">>, Undefined, <<"V">>, TRUE, 1),
    MkInstallation(<<"E">>, Undefined, Undefined, FALSE, 1) }

NoneInFlight == \A u \in Tasks : calls[u].op = "idle"

InitSaveDeleteAll ==
  /\ storage \in {<<>>,
                  SavedAll(<<>>, <<"C">>,
                           <<MkInstallation(Undefined, <<"D">>, <<"U">>, FALSE, 2)>>)}
  /\ cache = <<>>
  /\ calls = [t \in Tasks |-> Idle]
  /\ finished = Idle
  /\ config = DefaultConfig
  /\ ncalls = 0
  /\ probe = NoProbe

NextSaveDeleteAll ==
  \E t \in Tasks :
    \/ /\ ncalls = 0
       /\ \E c \in ClientIds, i \in SaveDeleteAllInstallations : SavePutBot(t, c, i, TRUE)
    \/ SavePutUser(t, TRUE)
    \/ /\ ncalls = 1 /\ NoneInFlight /\ finished.op = "save"
       /\ \E n \in 1..PageLimit :
            DeleteAllCall(t, finished.client, queryDerivedFrom(finished.arg), n, TRUE)
    \/ \E n \in 1..PageLimit : DeleteAllList(t, n, TRUE)
    \/ DeleteAllDelete(t, TRUE)
    \/ /\ ncalls >= 2 /\ NoneInFlight /\ finished.op # "save"
       /\ FindBot(t, finished.client, finished.arg, TRUE)
    \/ /\ ncalls >= 2 /\ NoneInFlight /\ finished.op # "save"
       /\ FindUser(t, finished.client, finished.arg, TRUE)

SpecSaveDeleteAll == InitSaveDeleteAll /\ [][NextSaveDeleteAll]_vars

----------------------------------------------------------------------------
(* The serialization helpers applied to every response *)

\* header names as a server may spell them, and names as a caller may look
\* them up
SentHeaderNames == {"X-OAuth-Scopes", "Set-Cookie", "retry-after"}

LookupHeaderNames ==
  {"x-oauth-scopes", "X-OAuth-Scopes", "X-OAUTH-SCOPES",
   "set-cookie", "Set-Cookie", "SET-COOKIE",
   "retry-after", "Retry-After", "RETRY-AFTER"}

HeaderLists ==
  UNION {[1..n -> SentHeaderNames \X {<<"a">>, <<"b">>}] : n \in 0..MaxHeaders}

\* a response of the Slack API with a header list
RoundTripResponses ==
  {[AuthTestResponse(<<"xoxb-1">>, ok) EXCEPT !.headers = MkHeaders(list)] :
     ok \in BOOLEAN, list \in HeaderLists}

InitRoundTrip ==
  /\ storage = <<>>
  /\ cache = <<>>
  /\ calls = [t \in Tasks |-> Idle]
  /\ finished = Idle
  /\ config = DefaultConfig
  /\ ncalls = 0
  /\ probe \in [applied : {FALSE}, response : RoundTripResponses]

RoundTrip ==
  /\ ~probe.applied
  /\ probe' = [applied |-> TRUE,
               response |-> probe.response,
               serialized |-> toSerializableSlackAPIResponse(probe.response),
               restored |-> fromSerializableSlackAPIResponse(
                              toSerializableSlackAPIResponse(probe.response))]
  /\ UNCHANGED <<storage, cache, calls, finished, config, ncalls>>

NextRoundTrip == RoundTrip

SpecRoundTrip == InitRoundTrip /\ [][NextRoundTrip]_vars

----------------------------------------------------------------------------
(* The key derivation helpers applied to every installation *)

KeyInstallations ==
  [enterprise_id : {Undefined, EmptyString, <<"E">>},
   team_id : {Undefined, EmptyString, <<"T">>, <<"T", "1">>},
   user_id : {Undefined, EmptyString, <<"U">>},
   is_enterprise_install : BOOLEAN]

InitKeys ==
  /\ storage = <<>>
  /\ cache = <<>>
  /\ calls = [t \in Tasks |-> Idle]
  /\ finished = Idle
  /\ config = DefaultConfig
  /\ ncalls = 0
  /\ probe \in [applied : {FALSE}, clientId : ClientIds, installation : KeyInstallations]

DeriveKeys ==
  /\ ~probe.applied
  /\ probe' = [applied |-> TRUE,
               clientId |-> probe.clientId,
               installation |-> probe.installation,
               botKey |-> toBotInstallationKey(probe.clientId, probe.installation),
               userKey |-> toUserInstallationKey(probe.clientId, probe.installation),
               botQuery |-> toBotInstallationQuery(probe.clientId,
                                                   queryDerivedFrom(probe.installation)),
               userQuery |-> toUserInstallationQuery(probe.clientId,
                                                     queryDerivedFrom(probe.installation))]
  /\ UNCHANGED <<storage, cache, calls, finished, config, ncalls>>

NextKeys == DeriveKeys

SpecKeys == InitKeys /\ [][NextKeys]_vars

----------------------------------------------------------------------------
(* Claims *)

\* C1: for every client id and installation, the key save writes equals the
\* key find reads for the query derived from the installation, for the bot
\* key and for the user key.
C1_KeySymmetry ==
  probe.applied =>
    /\ probe.botKey = probe.botQuery
    /\ probe.userKey = probe.userQuery

\* C2: once save(I) has completed with no other write to the namespace since
\* it began, findBotInstallation and findUserInstallation of the query
\* derived from I both return I, whatever the two keys held before.
C2_SaveThenFind ==
  (finished.op = "save" /\ finished.result.kind = "return" /\ finished.clean) =>
    /\ findBotInstallation(storage, finished.client, queryDerivedFrom(finished.arg))
         = Return(finished.arg)
    /\ findUserInstallation(storage, finished.client, queryDerivedFrom(finished.arg))
         = Return(finished.arg)

\* the calls in flight and the call that ended last
AllCalls == {calls[t] : t \in Tasks} \cup {finished}

\* the requests of one kind a call has issued, in order
Events(c, ev) == SelectSeq(c.trace, LAMBDA e : e.ev = ev)

RECURSIVE PageNames(_)
\* the names of the pages of a sequence of list responses, in order
PageNames(lists) ==
  IF lists = <<>> THEN <<>> ELSE lists[1].keys \o PageNames(Tail(lists))

\* the keys of team t without an enterprise: the bot key and the user keys
IsTeamKey(clientId, t, key) ==
  LET bot == clientId \o <<"/", "_", ":">> \o t
  IN  key = bot \/ StartsWith(key, bot \o <<":">>)

\* C3: deleteAll({teamId: T}) without enterpriseId deletes only the bot key
\* {clientId}/_:T and the user keys {clientId}/_:T:<user> of team T, and once
\* it has returned it has deleted every such key the list pages named.
C3_DeleteAllTeamOnly ==
  \A c \in AllCalls :
    (c.op = "deleteAll" /\ c.arg.enterpriseId = Undefined /\ Truthy(c.arg.teamId)) =>
      /\ \A i \in DOMAIN c.trace :
           c.trace[i].ev = "delete" => IsTeamKey(c.client, c.arg.teamId, c.trace[i].key)
      /\ c.result.kind = "return" =>
           LET names == PageNames(Events(c, "list"))
               deletes == Events(c, "delete")
           IN  \A i \in DOMAIN names :
                 IsTeamKey(c.client, c.arg.teamId, names[i]) =>
                   \E j \in DOMAIN deletes : deletes[j].key = names[i]

\* C4: deleteAll passes no cursor to its first list and to each later list
\* the cursor of the page before, lists on until a page is list_complete and
\* deletes nothing before that, and then deletes the names of the pages in
\* order, each once: when it returns it has deleted every name of every page.
C4_Pagination ==
  \A c \in AllCalls :
    c.op = "deleteAll" =>
      LET lists == Events(c, "list")
          deletes == Events(c, "delete")
          names == PageNames(lists)
      IN  /\ lists # <<>> => lists[1].cursor = Undefined
          /\ \A i \in 2..Len(lists) :
               ~lists[i - 1].list_complete /\ lists[i].cursor = lists[i - 1].next
          /\ (deletes # <<>> \/ (c.result.kind = "return" /\ lists # <<>>)) =>
               lists[Len(lists)].list_complete
          /\ Len(deletes) <= Len(names)
          /\ \A i \in DOMAIN deletes : deletes[i].key = names[i]
          /\ \A i, j \in DOMAIN deletes : i # j => deletes[i].key # deletes[j].key
          /\ c.result.kind = "return" => Len(deletes) = Len(names)

\* a deleteAll has returned after three pages and four deletes
C4_Witness ==
  /\ finished.op = "deleteAll" /\ finished.result.kind = "return"
  /\ Len(Events(finished, "list")) = 3
  /\ Len(Events(finished, "delete")) = 4

\* C5: deleteAll of a query with neither enterpriseId nor teamId returns at
\* once without error, having issued no list and no delete, and the step
\* leaves both namespaces as they were.
C5_UnscopedDeleteAllNoOp ==
  [][ /\ \A t \in Tasks :
           calls'[t].op = "deleteAll" =>
             calls'[t].arg.enterpriseId # Undefined \/ calls'[t].arg.teamId # Undefined
      /\ ( /\ finished' # finished
           /\ finished'.op = "deleteAll"
           /\ finished'.arg.enterpriseId = Undefined
           /\ finished'.arg.teamId = Undefined )
         => /\ finished'.trace = <<>>
            /\ finished'.result = Return(UndefinedObject)
            /\ storage' = storage
            /\ cache' = cache ]_vars

\* an unscoped deleteAll has returned while the namespace held installations
C5_Witness ==
  /\ finished.op = "deleteAll"
  /\ finished.arg.enterpriseId = Undefined /\ finished.arg.teamId = Undefined
  /\ finished.result.kind = "return"
  /\ Cardinality(DOMAIN storage) >= 4

\* the calls of the authorize function in flight and the one that ended last
AuthorizeCalls == {c \in AllCalls : c.op = "authorize"}

\* the requests of the flow that reject or throw
FailureEvents ==
  {"get rejected", "JSON.parse threw", "performRotation threw", "put rejected",
   "cache get rejected", "auth.test threw", "cache put rejected"}

\* the requests callAuthTest issues
AuthTestEvents ==
  {"cache get", "cache get rejected", "auth.test", "auth.test threw",
   "cache put", "cache put rejected"}

Failed(c) == \E i \in DOMAIN c.trace : c.trace[i].ev \in FailureEvents

\* the error a failed request of the flow raises
OriginalError(ev) ==
  CASE ev = "JSON.parse threw" -> SyntaxError
    [] ev = "performRotation threw" -> TokenRotationError
    [] ev = "auth.test threw" -> SlackAPIError
    [] OTHER -> KVError

\* where in the trace performRotation resolved for a phase, by what it resolved to
Rotations(c, phase, refreshed) ==
  {i \in DOMAIN c.trace : /\ c.trace[i].ev = "performRotation"
                          /\ c.trace[i].phase = phase
                          /\ c.trace[i].refreshed = refreshed}

\* the installation the lookup of a phase resolved to
Found(c, phase) ==
  SelectSeq(c.trace, LAMBDA e : e.ev = "get" /\ e.phase = phase)[1].found

\* the token of a phase in an installation and in a result
StoredToken(installation, phase) ==
  IF phase = "bot" THEN installation.bot_token ELSE installation.user_token

ResultToken(result, phase) ==
  IF phase = "bot" THEN result.botToken ELSE result.userToken

\* C6: when the stored bot installation has a refresh token and
\* performRotation resolves to nothing, the flow saves nothing for the bot
\* (and nothing at all unless the user's rotation refreshes), does not throw
\* unless another request fails, and returns the stored bot token as botToken.
C6_NoRotationKeepsBotToken ==
  \A c \in AuthorizeCalls :
    Rotations(c, "bot", FALSE) # {} =>
      /\ \A i \in DOMAIN c.trace :
           c.trace[i].ev \in {"put", "put rejected"} =>
             c.trace[i].phase = "user" /\ Rotations(c, "user", TRUE) # {}
      /\ c.result.kind = "throw" => Failed(c)
      /\ (c.pc = "done" /\ ~Failed(c)) =>
           /\ c.result.kind = "return"
           /\ c.result.value.botToken = Found(c, "bot").bot_token

\* the flow has returned the stored bot token after a rotation that resolved
\* to nothing, having saved nothing
C6_Witness ==
  /\ finished.op = "authorize"
  /\ Rotations(finished, "bot", FALSE) # {}
  /\ finished.result.kind = "return"
  /\ finished.result.value.botToken = InstallerU.bot_token
  /\ Events(finished, "put") = <<>>

C8_RefreshedSavedBeforeAuthTest ==
  \A c \in AuthorizeCalls : \A p \in {"bot", "user"} : \A i \in Rotations(c, p, TRUE) :
    LET orig == Found(c, p)
        expected ==
          IF p = "bot"
          THEN [orig EXCEPT !.bot_token = Fresh(orig.bot_token),
                            !.bot_refresh_token = Fresh(orig.bot_refresh_token),
                            !.bot_token_expires_at = Fresh(orig.bot_token_expires_at)]
          ELSE [orig EXCEPT !.user_token = Fresh(orig.user_token),
                            !.user_refresh_token = Fresh(orig.user_refresh_token),
                            !.user_token_expires_at = Fresh(orig.user_token_expires_at)]
        n == Len(c.trace)
    IN  /\ i + 1 <= n =>
             \/ c.trace[i + 1].ev = "put rejected"
             \/ /\ c.trace[i + 1].ev = "put"
                /\ c.trace[i + 1].key = toBotInstallationKey(c.client, expected)
                /\ c.trace[i + 1].value = expected
        /\ i + 2 <= n =>
             /\ c.trace[i + 1].ev = "put"
             /\ \/ c.trace[i + 2].ev = "put rejected"
                \/ /\ c.trace[i + 2].ev = "put"
                   /\ c.trace[i + 2].key = toUserInstallationKey(c.client, expected)
                   /\ c.trace[i + 2].value = expected
        /\ \A j \in DOMAIN c.trace :
             (c.trace[j].ev \in AuthTestEvents /\ c.trace[j].phase = p) =>
               /\ j > i + 2
               /\ c.trace[i + 1].ev = "put" /\ c.trace[i + 2].ev = "put"
        /\ c.result.kind = "return" =>
             ResultToken(c.result.value, p) = Fresh(StoredToken(orig, p))

\* the flow has returned the refreshed tokens after the bot's and the user's
\* rotation and four puts
C8_Witness ==
  /\ finished.op = "authorize"
  /\ Rotations(finished, "bot", TRUE) # {} /\ Rotations(finished, "user", TRUE) # {}
  /\ Len(Events(finished, "put")) = 4
  /\ finished.result.kind = "return"
  /\ finished.result.value.botToken = Fresh(InstallerU.bot_token)
  /\ finished.result.value.userToken = Fresh(InstallerU.user_token)

\* C9: the flow looks the user installation up under the query of the bot
\* lookup when SLACK_USER_TOKEN_RESOLUTION is "installer" and under the
\* actor's enterprise, team and user otherwise, and a result holds the userId
\* and userScopes of the installation found.
C9_UserLookupIdentity ==
  \A c \in AuthorizeCalls :
    LET identity ==
          IF config.SLACK_USER_TOKEN_RESOLUTION = "installer"
          THEN ContextQuery(c.arg)
          ELSE MkQuery(c.arg.actorEnterpriseId, c.arg.actorTeamId,
                       c.arg.actorUserId, c.arg.isEnterpriseInstall)
    IN  \A i \in DOMAIN c.trace :
          (c.trace[i].ev = "get" /\ c.trace[i].phase = "user") =>
            /\ c.trace[i].key = toUserInstallationQuery(c.client, identity)
            /\ (c.result.kind = "return" /\ c.trace[i].found # UndefinedObject) =>
                 /\ c.result.value.userId = c.trace[i].found.user_id
                 /\ c.result.value.userScopes = c.trace[i].found.user_scopes

\* C10: a request of the flow that rejects or throws ends the call, and a
\* call that ends with an error ends with an AuthorizeError whose message
\* holds the error of the request that failed and the JSON text of the query
\* built from the context.
C10_AuthorizeErrorOnly ==
  \A c \in AuthorizeCalls :
    /\ Failed(c) => c.pc = "done" /\ c.result.kind = "throw"
    /\ c.result.kind = "throw" =>
         /\ c.trace # <<>>
         /\ c.trace[Len(c.trace)].ev \in FailureEvents
         /\ c.result.error.type = "AuthorizeError"
         /\ c.result.error.message.error
              = <<OriginalError(c.trace[Len(c.trace)].ev).type>>
         /\ c.result.error.message.query = JSONstringify(ContextQuery(c.arg))

\* the flow has ended with an AuthorizeError after the cache write of the
\* user's auth.test response was rejected
C10_Witness ==
  /\ finished.op = "authorize"
  /\ finished.result.kind = "throw"
  /\ finished.trace[Len(finished.trace)] = [ev |-> "cache put rejected", phase |-> "user"]
  /\ finished.result.error.message.error = <<KVError.type>>

\* the key a find* call reads
FindKey(c) ==
  IF c.op = "findBotInstallation" THEN toBotInstallationQuery(c.client, c.arg)
  ELSE toUserInstallationQuery(c.client, c.arg)

\* C11: findBotInstallation and findUserInstallation of a namespace that
\* answers do not raise an error, and return absent when there is no value at
\* the derived key and when the value there is not a serialized installation.
C11_FindNeverThrows ==
  finished.op \in {"findBotInstallation", "findUserInstallation"} =>
    /\ finished.result.kind = "return"
    /\ (KVGet(storage, FindKey(finished)) = Null
        \/ KVGet(storage, FindKey(finished)).text # "json") =>
         finished.result = Return(UndefinedObject)

\* what callAuthTest of a phase resolved to
PhaseResponse(c, phase) ==
  IF phase = "bot" THEN c.loc.botAuthTest ELSE c.loc.userAuthTest

\* the requests of callAuthTest of one phase, by kind
PhaseEvents(c, phase, evs) ==
  {j \in DOMAIN c.trace : c.trace[j].ev \in evs /\ c.trace[j].phase = phase}

\* the call of task t after a step of it
Stepped(t) == IF calls'[t].op = "idle" THEN finished' ELSE calls'[t]

\* C12: with the cache enabled, callAuthTest reads the entry of its token; if
\* there is none it calls auth.test upstream once and, if the response is
\* successful, writes the cache once, under the token; if there is one it
\* calls nothing upstream, writes nothing and resolves to the cached response.
C12_CacheMissThenHit ==
  [][ /\ \A t \in Tasks :
           ( /\ calls[t].op = "authorize" /\ calls[t].pc = "cacheGet"
             /\ calls'[t] # calls[t]
             /\ Stepped(t).trace[Len(Stepped(t).trace)].ev = "cache get" ) =>
             LET e == Stepped(t).trace[Len(Stepped(t).trace)]
             IN  /\ e.key = AuthTestToken(calls[t])
                 /\ e.hit = (e.key \in DOMAIN cache)
                 /\ e.cached = KVGet(cache, e.key)
      /\ \A t \in Tasks : \A i \in DOMAIN Stepped(t).trace :
           LET c == Stepped(t)
               e == c.trace[i]
               n == Len(c.trace)
           IN  (c.op = "authorize" /\ e.ev = "cache get") =>
                 IF e.hit
                 THEN /\ PhaseEvents(c, e.phase, AuthTestEvents) = {i}
                      /\ PhaseResponse(c, e.phase)
                           = fromSerializableSlackAPIResponse(JSONparse(e.cached).value)
                 ELSE /\ IF i < n
                         THEN c.trace[i + 1].ev \in {"auth.test", "auth.test threw"}
                         ELSE c.pc = "authTest"
                      /\ PhaseEvents(c, e.phase, {"auth.test", "auth.test threw"})
                           \subseteq {i + 1}
                      /\ PhaseEvents(c, e.phase, {"cache put", "cache put rejected"})
                           \subseteq {i + 2}
                      /\ (i < n /\ c.trace[i + 1].ev = "auth.test") =>
                           IF AuthTestSucceeded(c.trace[i + 1].response)
                           THEN IF i + 1 < n
                                THEN /\ c.trace[i + 2].ev \in {"cache put", "cache put rejected"}
                                     /\ c.trace[i + 2].ev = "cache put" =>
                                          c.trace[i + 2].key = e.key
                                ELSE c.pc = "cachePut"
                           ELSE PhaseEvents(c, e.phase, {"cache put", "cache put rejected"}) = {}
    ]_vars

\* one call found the bot token's entry an earlier call had left, called
\* nothing upstream for it, and for the user token missed, called auth.test
\* once and wrote the cache once
C12_Witness ==
  /\ finished.op = "authorize" /\ finished.result.kind = "return"
  /\ \E i \in PhaseEvents(finished, "bot", {"cache get"}) : finished.trace[i].hit
  /\ PhaseEvents(finished, "bot", {"auth.test"}) = {}
  /\ \E i \in PhaseEvents(finished, "user", {"cache get"}) : ~finished.trace[i].hit
  /\ Cardinality(PhaseEvents(finished, "user", {"auth.test"})) = 1
  /\ Cardinality(PhaseEvents(finished, "user", {"cache put"})) = 1
  /\ finished.result.value.botUserId
       = AuthTestResponse(InstallerU.bot_token, TRUE).user_id

\* C13: every entry of the cache is a response with ok and without an error
\* field; an upstream response that failed is what callAuthTest resolves to,
\* and no cache write follows it.
C13_NoFailedResponseCached ==
  /\ \A k \in DOMAIN cache :
       LET r == JSONparse(cache[k]).value
       IN  r.ok /\ r.error = Undefined
  /\ \A c \in AuthorizeCalls : \A i \in DOMAIN c.trace :
       (c.trace[i].ev = "auth.test"
        /\ (~c.trace[i].response.ok \/ c.trace[i].response.error # Undefined)) =>
         /\ PhaseEvents(c, c.trace[i].phase, {"cache put", "cache put rejected"}) = {}
         /\ c.pc = "cachePut" => c.loc.phase # c.trace[i].phase
         /\ PhaseResponse(c, c.trace[i].phase) = c.trace[i].response

\* with the cache enabled the bot's auth.test failed, the flow returned, and
\* the cache holds nothing under the bot token
C13_Witness ==
  /\ finished.op = "authorize" /\ finished.result.kind = "return"
  /\ config.authTestCacheEnabled
  /\ \E i \in PhaseEvents(finished, "bot", {"auth.test"}) :
       /\ ~finished.trace[i].response.ok
       /\ Truthy(finished.trace[i].token)
       /\ finished.trace[i].token \notin DOMAIN cache

\* C14: when the cache is disabled or callAuthTest is given no token, the
\* only request of callAuthTest is one upstream auth.test, it resolves to the
\* response of that request as it is, and the cache stays as it was.
C14_UncachedAuthTest ==
  [][ \A t \in Tasks :
        ( /\ calls[t].op = "authorize" /\ calls[t].pc = "authTest"
          /\ calls'[t] # calls[t]
          /\ (~config.authTestCacheEnabled \/ ~Truthy(AuthTestToken(calls[t]))) ) =>
          LET d == Stepped(t)
              p == calls[t].loc.phase
              n == Len(d.trace)
          IN  /\ cache' = cache
              /\ PhaseEvents(d, p, AuthTestEvents) = {n}
              /\ d.trace[n].ev \in {"auth.test", "auth.test threw"}
              /\ d.pc # "cachePut"
              /\ d.trace[n].ev = "auth.test" =>
                   PhaseResponse(d, p) = d.trace[n].response
    ]_vars

\* with the cache disabled the flow has returned after two upstream calls and
\* no request to the cache
C14_Witness ==
  /\ finished.op = "authorize" /\ finished.result.kind = "return"
  /\ ~config.authTestCacheEnabled
  /\ Len(Events(finished, "auth.test")) = 2
  /\ Events(finished, "cache get") = <<>> /\ Events(finished, "cache put") = <<>>
  /\ cache = <<>>

\* C15: a cache request that fails does not end the call with an error:
\* after a failed cache read callAuthTest calls auth.test upstream, and after
\* a failed cache write it resolves to the upstream response.
C15_CacheFailureTolerated ==
  \A c \in AuthorizeCalls : \A i \in DOMAIN c.trace :
    /\ c.trace[i].ev = "cache get rejected" =>
         /\ ~(i = Len(c.trace) /\ c.result.kind = "throw")
         /\ i < Len(c.trace) => c.trace[i + 1].ev \in {"auth.test", "auth.test threw"}
    /\ c.trace[i].ev = "cache put rejected" =>
         /\ ~(i = Len(c.trace) /\ c.result.kind = "throw")
         /\ PhaseResponse(c, c.trace[i].phase) = c.trace[i - 1].response

\* the keys a store bound to clientId derives for an installation or a query
DerivedKeys(clientId) ==
  UNION { {toBotInstallationKey(clientId, i), toUserInstallationKey(clientId, i),
           toBotInstallationQuery(clientId, queryDerivedFrom(i)),
           toUserInstallationQuery(clientId, queryDerivedFrom(i))} :
          i \in KeyInstallations }

\* the keys of the namespace a step has put, replaced or deleted
ChangedKeys ==
  {k \in DOMAIN storage \cup DOMAIN storage' : KVGet(storage, k) # KVGet(storage', k)}

C17_DeleteIdempotent ==
  [][ ( /\ ncalls' = ncalls + 1
        /\ finished'.op \in {"deleteBotInstallation", "deleteUserInstallation"} ) =>
        LET key == finished'.trace[1].key
        IN  /\ finished'.result = Return(UndefinedObject)
            /\ key = FindKey([finished' EXCEPT
                                !.op = IF @ = "deleteBotInstallation"
                                       THEN "findBotInstallation"
                                       ELSE "findUserInstallation"])
            /\ DOMAIN storage' = DOMAIN storage \ {key}
            /\ \A k \in DOMAIN storage' : storage'[k] = storage[k]
            /\ key \notin DOMAIN storage => storage' = storage
            /\ ( /\ finished.op = finished'.op
                 /\ finished.client = finished'.client
                 /\ finished.arg = finished'.arg ) => storage' = storage
    ]_vars

\* after a save, a deleteBotInstallation and one more call, a
\* deleteBotInstallation has returned and the namespace holds the user key only
C17_Witness ==
  /\ ncalls = 3
  /\ finished.op = "deleteBotInstallation"
  /\ finished.result.kind = "return"
  /\ finished.trace[1].key \notin DOMAIN storage
  /\ Cardinality(DOMAIN storage) = 1

\* C18: the response restored from the serializable form of a response r has
\* every field but headers equal to that of r, and its headers give for every
\* header name in every letter case the value the headers of r give.
C18_RoundTrip ==
  (probe.applied /\ "restored" \in DOMAIN probe) =>
    /\ [probe.restored EXCEPT !.headers = Null] = [probe.response EXCEPT !.headers = Null]
    /\ probe.restored.headers.kind = "Headers"
    /\ \A name \in LookupHeaderNames :
         HeadersGet(probe.restored.headers, name) = HeadersGet(probe.response.headers, name)

\* C19: every cache entry callAuthTest writes carries the configured
\* authTestCacheExpirationSecs as its expiration when that number is positive
\* (600 by default) and no expiration when it is zero or negative, in the
\* request it sends and in the entry the namespace holds; an entry with no
\* expiration stays in the namespace.
C19_CacheEntryExpiration ==
  [][/\ \A key \in DOMAIN cache' :
          (key \notin DOMAIN cache \/ cache'[key] # cache[key]) =>
            cache'[key].expirationTtl =
              IF config.authTestCacheExpirationSecs > 0
                THEN config.authTestCacheExpirationSecs
                ELSE 0
     /\ \A t \in Tasks :
          (calls[t].op = "authorize" /\ calls'[t] # calls[t]
             /\ Len(Stepped(t).trace) > Len(calls[t].trace)
             /\ Stepped(t).trace[Len(Stepped(t).trace)].ev = "cache put") =>
            Stepped(t).trace[Len(Stepped(t).trace)].expirationTtl =
              IF config.authTestCacheExpirationSecs > 0
                THEN config.authTestCacheExpirationSecs
                ELSE 0
     /\ \A key \in DOMAIN cache :
          cache[key].expirationTtl = 0 =>
            (key \in DOMAIN cache' /\ cache'[key].expirationTtl = 0)]_vars

\* a finished call that wrote a permanent entry under a negative number of
\* seconds
C19_Witness ==
  /\ finished.op = "authorize" /\ finished.result.kind = "return"
  /\ config.authTestCacheEnabled
  /\ config.authTestCacheExpirationSecs < 0
  /\ \E i \in PhaseEvents(finished, "bot", {"cache put"}) :
       /\ finished.trace[i].expirationTtl = 0
       /\ finished.trace[i].key \in DOMAIN cache
       /\ cache[finished.trace[i].key].expirationTtl = 0

\* C20: when the flow found a user installation, its second auth.test call
\* is made with the user token of that installation, and the user of a
\* returned result is the identity auth.test reports for the user token.
C20_UserAuthTestWithUserToken ==
  \A c \in AuthorizeCalls :
    (c.result.kind = "return" /\ c.result.value.userToken # Undefined) =>
      \A i \in PhaseEvents(c, "user", {"auth.test"}) :
        /\ c.trace[i].token = c.result.value.userToken
        /\ c.trace[i].response.ok =>
             c.result.value.user = IdentityOf(c.result.value.userToken)

\* the task whose call took the step
Acted(t) == calls'[t].op # calls[t].op \/ calls'[t].trace # calls[t].trace

\* the request the call of task t has issued last
LastEvent(c) == c.trace[Len(c.trace)]

\* the installation a put of call c writes
PutValue(c) == IF c.op = "save" THEN c.arg ELSE LastEvent(c).value

\* the tasks whose put resolved in the step
Putting ==
  {t \in Tasks : /\ Acted(t)
                 /\ Stepped(t).trace # <<>>
                 /\ Len(Stepped(t).trace) > Len(calls[t].trace)
                 /\ LastEvent(Stepped(t)).ev = "put"}

\* the two keys of the installations of SavesInstallations
SavesBotKey == toBotInstallationKey(<<"C">>, InstallerU)
SavesUserKey == toUserInstallationKey(<<"C">>, InstallerU)

\* C21: under every interleaving of save calls and of the saves issued after
\* a rotation, a put that resolves leaves under its key exactly the
\* installation of its save and changes no other key, and no other step
\* changes the namespace: each key holds the whole value of the put to it
\* that happened last.
C21_LastWriteWins ==
  [][/\ \A t \in Putting :
          LET c == Stepped(t)
              key == LastEvent(c).key
          IN  /\ KVGet(storage', key) = JSONstringify(PutValue(c))
              /\ \A k \in (DOMAIN storage \cup DOMAIN storage') \ {key} :
                   KVGet(storage', k) = KVGet(storage, k)
     /\ Putting = {} => storage' = storage]_vars

\* a save has returned after another call wrote to the namespace while it
\* was in flight, and no call is left
C21_Witness ==
  /\ \A t \in Tasks : calls[t].op = "idle"
  /\ finished.op = "save" /\ finished.result.kind = "return"
  /\ ~finished.clean
  /\ KVGet(storage, SavesUserKey) = JSONstringify(finished.arg)
  /\ KVGet(storage, SavesBotKey) # JSONstringify(finished.arg)

\* C22: once no call is in flight, the bot key and the user key of one
\* identity hold the same installation record.
C22_KeysHoldSameSave ==
  (\A t \in Tasks : calls[t].op = "idle") =>
    KVGet(storage, SavesBotKey) = KVGet(storage, SavesUserKey)

\* C23: when the only call made, a call of the authorize function, returns
\* after performRotation refreshed the bot token, the record under the bot
\* key holds the botToken of the result, whatever the flow saved for the
\* user afterwards.
C23_RotatedBotTokenStored ==
  (/\ ncalls = 1
   /\ finished.op = "authorize" /\ finished.result.kind = "return"
   /\ Rotations(finished, "bot", TRUE) # {}) =>
    LET stored == KVGet(storage, toBotInstallationQuery(finished.client,
                                                         finished.loc.query))
    IN  /\ stored # Null
        /\ JSONparse(stored).ok
        /\ JSONparse(stored).value.bot_token = finished.result.value.botToken

\* C24: after save(I) of an installation with an enterprise_id or a team_id
\* and then deleteAll of the query of I's identity, findBotInstallation and
\* findUserInstallation of that query return undefined.
C24_DeleteAllThenFindAbsent ==
  (finished.op \in {"findBotInstallation", "findUserInstallation"}) =>
    finished.result = Return(UndefinedObject)

\* the pagination loop of a deleteAll call stopped at the first page that
\* was list_complete or had no cursor, and the call has deleted no more
\* than the names it listed
StopsAtLastPage(c) ==
  LET lists == Events(c, "list")
  IN  /\ \A i \in 2..Len(lists) :
           ~lists[i - 1].list_complete /\ Truthy(lists[i - 1].next)
      /\ c.pc = "list" =>
           (lists # <<>> /\ ~lists[Len(lists)].list_complete
              /\ Truthy(lists[Len(lists)].next))
      /\ Len(Events(c, "delete")) <= Len(PageNames(lists))

\* C25: a deleteAll call lists one page per list call and lists no more
\* once a page is list_complete or has no cursor, deletes at most the names
\* listed, and ends: every call in flight leaves its task in the end.
C25_DeleteAllTerminates ==
  /\ [](\A c \in AllCalls : c.op = "deleteAll" => StopsAtLastPage(c))
  /\ \A t \in Tasks : (calls[t].op = "deleteAll") ~> (calls[t].op = "idle")

\* a deleteAll has returned after two pages and the deletes of their names
C25_Witness ==
  /\ finished.op = "deleteAll" /\ finished.result.kind = "return"
  /\ Len(Events(finished, "list")) = 2
  /\ Events(finished, "list")[2].list_complete
  /\ Len(Events(finished, "delete")) = Len(PageNames(Events(finished, "list")))
  /\ Len(Events(finished, "delete")) > PageLimit

====
